---- MODULE Spec2Model ----
(***************************************************************************)
(* Model of the in-memory bill-splitting store                             *)
(* (backend/app/services/session_manager.py) and of the request handlers   *)
(* that drive it (backend/app/routes/sessions.py).                         *)
(*                                                                         *)
(* Every handler is an `async def` without an await, so each one runs to   *)
(* completion on the event loop: one action per handler.                   *)
(*                                                                         *)
(* Representation.                                                         *)
(*   - a uuid4 identifier is a pair <<kind, k>>: the k-th identifier       *)
(*     _generate_id handed out for a session ("s"), participant ("p"),     *)
(*     item ("i") or assignment ("a"); `nextId[kind]` is the next k, so    *)
(*     an identifier is never handed out twice.                            *)
(*   - a session code is a sequence of CodeLen characters.                 *)
(*   - Optional[T] is a set with at most one element (Nothing / Some(x)).  *)
(*   - Python floats are exact rationals [n, d] in lowest terms.           *)
(*   - datetime.now() reads the variable `now`, a clock that never goes    *)
(*     backwards.                                                          *)
(*   - a handler is an operator from the store it finds (S = sessions,     *)
(*     I = sessions_by_code, N = the identifiers handed out so far), the   *)
(*     time t and its arguments to a Response: the HTTP status, the store  *)
(*     it leaves and the body it returns.  The action of the handler       *)
(*     installs the store of the response.                                 *)
(*   - `deleted` is a history variable: for each session delete_session    *)
(*     removed, its id, the code it held and the ids of the entities it    *)
(*     owned at that moment.                                               *)
(*   - `pc` and `candidate` follow a create_session call through the       *)
(*     retry loop of _generate_session_code: pc is "idle" between          *)
(*     requests, "draw" before `code = random.choices(...)` and "test"     *)
(*     before `if code not in self.sessions_by_code`; candidate is the     *)
(*     local variable `code` of the loop.                                  *)
(*   - `receipt_data`, `rounding` and `validation` are the argument and    *)
(*     the result of one call of ReceiptParser._validate_receipt.  The     *)
(*     amounts of a receipt are exact rationals; the float arithmetic of   *)
(*     the validator computes a difference with a rounding error far       *)
(*     below a cent, so its comparison with 0.02 is decided by the exact   *)
(*     difference except when that is exactly 2/100: there `rounding`      *)
(*     gives the sign of the error (1.0 + 0.02 - 1.0 > 0.02 is True,       *)
(*     11.02 - (10 + 1) > 0.02 is False).                                  *)
(*   - `receipts` is session_manager.receipts, the dict that holds the     *)
(*     uploaded image under f"{receipt_id}_image" (key <<"image", id>>)    *)
(*     and the parsed receipt under receipt_id (key <<"data", id>>).       *)
(*   - `pending` is the set of requests the server has received and whose  *)
(*     handler the event loop has not run yet; `answered` holds, for each  *)
(*     request answered, its status and the ids of the entities its        *)
(*     handler created.                                                    *)
(*   - pass-through data fields (restaurantName, subtotal, tax, tip,       *)
(*     userId, name, category, lineNumber, ...) are represented by one     *)
(*     field per entity.                                                   *)
(***************************************************************************)
EXTENDS Integers, Sequences, FiniteSets, TLC

VARIABLES sessions, sessions_by_code, now, nextId, deleted, pc, candidate,
          receipt_data, rounding, validation, receipts, pending, answered

\* the variables of the session store and of its handlers
store_vars == <<sessions, sessions_by_code, now, nextId, deleted, pc, candidate>>

\* the variables of the receipt validator and of the receipt handlers
receipt_vars == <<receipt_data, rounding, validation, receipts>>

\* the requests in flight and the responses sent
request_vars == <<pending, answered>>

vars == <<sessions, sessions_by_code, now, nextId, deleted, pc, candidate,
          receipt_data, rounding, validation, receipts, pending, answered>>

(***************************************************************************)
(* Bounds of the model.                                                    *)
(***************************************************************************)
CodeLen == 1
MaxSessions == 2
MaxParticipants == 1
MaxItems == 1
MaxAssignments == 2
MaxClock == 1

(***************************************************************************)
(* Generic helpers.                                                        *)
(***************************************************************************)
Nothing == {}
Some(x) == {x}
The(o) == CHOOSE x \in o : TRUE

Range(s) == {s[i] : i \in DOMAIN s}

RECURSIVE SeqsUpTo(_, _)
SeqsUpTo(S, n) ==
    IF n = 0 THEN {<<>>}
    ELSE LET shorter == SeqsUpTo(S, n - 1)
         IN  shorter \cup {Append(q, x) : q \in {r \in shorter : Len(r) = n - 1}, x \in S}

SeqsOfLen(S, n) == {q \in SeqsUpTo(S, n) : Len(q) = n}

\* del list[idx]
RemoveAt(s, idx) == [i \in 1..(Len(s) - 1) |-> IF i < idx THEN s[i] ELSE s[i + 1]]

(***************************************************************************)
(* Floats as rationals in lowest terms.                                    *)
(***************************************************************************)
Abs(x) == IF x < 0 THEN -x ELSE x

RECURSIVE GCD(_, _)
GCD(a, b) == IF b = 0 THEN a ELSE GCD(b, a % b)

Rat(n, d) ==
    LET g == GCD(Abs(n), Abs(d))
        s == IF d < 0 THEN -1 ELSE 1
    IN  [n |-> (s * n) \div g, d |-> (s * d) \div g]

RMul(a, b) == Rat(a.n * b.n, a.d * b.d)
RDiv(a, b) == Rat(a.n * b.d, a.d * b.n)
RAdd(a, b) == Rat(a.n * b.d + b.n * a.d, a.d * b.d)
RInt(k) == Rat(k, 1)

RSub(a, b) == RAdd(a, Rat(0 - b.n, b.d))
RAbs(a) == Rat(Abs(a.n), a.d)
RLeq(a, b) == a.n * b.d <= b.n * a.d

RECURSIVE RSum(_)
RSum(s) == IF s = <<>> THEN RInt(0) ELSE RAdd(s[1], RSum(Tail(s)))

(***************************************************************************)
(* Session codes: string.ascii_uppercase + string.digits, k = CodeLen.     *)
(***************************************************************************)
CodeAlphabet == {"A", "7"}
InputAlphabet == {"A", "a", "7"}

UpperChar(c) == IF c = "a" THEN "A" ELSE c

\* str.upper()
Upper(code) == [i \in DOMAIN code |-> UpperChar(code[i])]

Codes == SeqsOfLen(CodeAlphabet, CodeLen)
CodeInputs == SeqsOfLen(InputAlphabet, CodeLen)

\* the identifiers _generate_id hands out, by kind
IdsOf(kind, n) == {<<kind, k>> : k \in 1..n}
SessionIds == IdsOf("s", MaxSessions)
ParticipantIds == IdsOf("p", MaxParticipants)
ItemIds == IdsOf("i", MaxItems)
AssignmentIds == IdsOf("a", MaxAssignments)

\* _generate_id
NewId(N, kind) == <<kind, N[kind]>>
Taken(N, kind) == [N EXCEPT ![kind] = @ + 1]

(***************************************************************************)
(* Merge-patch used by every update handler:                               *)
(*     for key, value in updates.items():                                  *)
(*         if hasattr(obj, key): setattr(obj, key, value)                  *)
(* `updates` is the dict of the request body: the sequence of its items,   *)
(* in the order the loop visits them.  obj is a pydantic model: hasattr    *)
(* holds for its fields and for every other attribute of its class (the    *)
(* methods of BaseModel); setattr assigns a field without validation and   *)
(* raises ValueError for a name that is no field.  The result is the       *)
(* object as the loop leaves it and whether the loop raised.               *)
(***************************************************************************)
\* one item of a dict
Item(key, value) == [key |-> key, value |-> value]

\* names of attributes every pydantic model has that are not fields
ClassAttributes == {"copy"}

hasattr(obj, key) == key \in DOMAIN obj \/ key \in ClassAttributes

RECURSIVE ApplyUpdates(_, _)
ApplyUpdates(obj, updates) ==
    IF updates = <<>>
    THEN [obj |-> obj, raised |-> FALSE]
    ELSE LET key == Head(updates).key
             value == Head(updates).value
         IN  IF ~hasattr(obj, key)
             THEN ApplyUpdates(obj, Tail(updates))
             ELSE IF key \notin DOMAIN obj
                  THEN [obj |-> obj, raised |-> TRUE]
                  ELSE ApplyUpdates([obj EXCEPT ![key] = value], Tail(updates))

(***************************************************************************)
(* Store lookups, as functions of the store (S = sessions,                 *)
(* I = sessions_by_code) so that they can be evaluated before and after a  *)
(* step.                                                                   *)
(***************************************************************************)
get_session(S, session_id) ==
    IF session_id \in DOMAIN S THEN Some(S[session_id]) ELSE Nothing

get_session_by_code(S, I, session_code) ==
    IF session_code \in DOMAIN I
    THEN get_session(S, I[session_code])
    ELSE Nothing

\* GET /api/sessions/code/{session_code}: 200 with the session, or 404
route_get_session_by_code(S, I, session_code) ==
    get_session_by_code(S, I, Upper(session_code))

\* dict iteration is in insertion order, which is the order of the ids
FirstOwner(S, owners) ==
    IF owners = {} THEN Nothing
    ELSE Some(CHOOSE sid \in owners : \A other \in owners : sid[2] <= other[2])

HasId(list, id) == \E i \in DOMAIN list : list[i].id = id

\* index of the first entry of the list with this id
IndexOf(list, id) ==
    CHOOSE i \in DOMAIN list :
        /\ list[i].id = id
        /\ \A j \in DOMAIN list : list[j].id = id => i <= j

\* the session whose participants / items / assignments hold the id
ParticipantOwner(S, participant_id) ==
    FirstOwner(S, {sid \in DOMAIN S : HasId(S[sid].participants, participant_id)})

ItemOwner(S, item_id) ==
    FirstOwner(S, {sid \in DOMAIN S : HasId(S[sid].items, item_id)})

AssignmentOwner(S, assignment_id) ==
    FirstOwner(S, {sid \in DOMAIN S : HasId(S[sid].assignments, assignment_id)})

get_item(S, item_id) ==
    LET owner == ItemOwner(S, item_id)
    IN  IF owner = Nothing THEN Nothing
        ELSE LET items == S[The(owner)].items
             IN  Some(items[IndexOf(items, item_id)])

get_participant(S, session_id, participant_id) ==
    IF session_id \notin DOMAIN S THEN Nothing
    ELSE LET ps == S[session_id].participants
         IN  IF HasId(ps, participant_id)
             THEN Some(ps[IndexOf(ps, participant_id)])
             ELSE Nothing

(***************************************************************************)
(* Responses.                                                              *)
(***************************************************************************)
Response(status, S, I, N, body) ==
    [status |-> status, sessions |-> S, sessions_by_code |-> I, nextId |-> N,
     body |-> body]

Put(f, k, v) == [x \in DOMAIN f \cup {k} |-> IF x = k THEN v ELSE f[x]]
Drop(f, k) == [x \in DOMAIN f \ {k} |-> f[x]]

\* session.updatedAt = datetime.now()
Touch(session, t) == [session EXCEPT !.updatedAt = t]

(***************************************************************************)
(* Sessions.                                                               *)
(***************************************************************************)
\* the codes the retry loop of _generate_session_code can return
FreeCodes(I) == {code \in Codes : code \notin DOMAIN I}

SessionCreates == {[total |-> RInt(20)]}

NewSession(session_id, session_code, data, t) ==
    [id |-> session_id,
     sessionCode |-> session_code,
     total |-> data.total,
     status |-> "active",
     createdAt |-> t,
     updatedAt |-> t,
     items |-> <<>>,
     participants |-> <<>>,
     assignments |-> <<>>]

\* session_code is the code _generate_session_code returned
create_session(S, I, N, t, data, session_code) ==
    LET session_id == NewId(N, "s")
        session == NewSession(session_id, session_code, data, t)
    IN  Response(201, Put(S, session_id, session), Put(I, session_code, session_id),
                 Taken(N, "s"), <<session>>)

\* a ValueError raised by the loop leaves the fields assigned before it in
\* place, skips the assignment of updatedAt, and is answered with 500
update_session(S, I, N, t, session_id, updates) ==
    IF session_id \notin DOMAIN S
    THEN Response(404, S, I, N, <<>>)
    ELSE LET patched == ApplyUpdates(S[session_id], updates)
             session == Touch(patched.obj, t)
         IN  IF patched.raised
             THEN Response(500, [S EXCEPT ![session_id] = patched.obj], I, N, <<>>)
             ELSE Response(200, [S EXCEPT ![session_id] = session], I, N, <<session>>)

\* del self.sessions[session_id]; del self.sessions_by_code[session.sessionCode]
\* The second del raises KeyError when the code is not a key of the index;
\* the first del has happened by then, and the request is answered with 500.
DropSessionKeep(S, session_id) == S

DropSession(S, session_id) == Drop(S, session_id)

DropCodeKeep(I, session_code) == I

DropCode(I, session_code) == Drop(I, session_code)

delete_session(S, I, N, t, session_id) ==
    IF session_id \notin DOMAIN S
    THEN Response(404, S, I, N, <<>>)
    ELSE LET session == S[session_id]
         IN  IF session.sessionCode \in DOMAIN I
             THEN Response(204, DropSession(S, session_id),
                           DropCode(I, session.sessionCode), N, <<>>)
             ELSE Response(500, DropSession(S, session_id), I, N, <<>>)

(***************************************************************************)
(* Participants.                                                           *)
(***************************************************************************)
\* ParticipantCreate(guestName=...) with the defaults of ParticipantBase
ParticipantCreate(guestName) ==
    [guestName |-> guestName,
     amountOwed |-> RInt(0),
     amountPaid |-> RInt(0),
     paymentStatus |-> "pending"]

GuestNames == {"guest"}

NewParticipant(participant_id, session_id, data, t) ==
    [id |-> participant_id,
     sessionId |-> session_id,
     guestName |-> data.guestName,
     amountOwed |-> data.amountOwed,
     amountPaid |-> data.amountPaid,
     paymentStatus |-> data.paymentStatus,
     joinedAt |-> t]

\* session.participants = [participant] in place of the append
add_participant_overwriting(S, I, N, t, session_id, data) ==
    IF session_id \notin DOMAIN S
    THEN Response(404, S, I, N, <<>>)
    ELSE LET participant == NewParticipant(NewId(N, "p"), session_id, data, t)
         IN  Response(201,
                      [S EXCEPT ![session_id] =
                          Touch([@ EXCEPT !.participants = <<participant>>], t)],
                      I, Taken(N, "p"), <<participant>>)

add_participant(S, I, N, t, session_id, data) ==
    IF session_id \notin DOMAIN S
    THEN Response(404, S, I, N, <<>>)
    ELSE LET participant == NewParticipant(NewId(N, "p"), session_id, data, t)
         IN  Response(201,
                      [S EXCEPT ![session_id] =
                          Touch([@ EXCEPT !.participants = Append(@, participant)], t)],
                      I, Taken(N, "p"), <<participant>>)

\* POST /api/sessions/join: the body is JoinSessionResponse(session, participant),
\* where session is the object found by code, read after add_participant ran
join_session(S, I, N, t, sessionCode, guestName) ==
    LET found == get_session_by_code(S, I, Upper(sessionCode))
    IN  IF found = Nothing
        THEN Response(404, S, I, N, <<>>)
        ELSE LET session == The(found)
                 r == add_participant(S, I, N, t, session.id, ParticipantCreate(guestName))
             IN  IF r.status = 404
                 THEN Response(500, S, I, N, <<>>)
                 ELSE Response(200, r.sessions, I, r.nextId,
                               <<r.sessions[I[Upper(sessionCode)]], r.body[1]>>)

update_participant(S, I, N, t, participant_id, updates) ==
    LET owner == ParticipantOwner(S, participant_id)
    IN  IF owner = Nothing
        THEN Response(404, S, I, N, <<>>)
        ELSE LET sid == The(owner)
                 idx == IndexOf(S[sid].participants, participant_id)
                 patched == ApplyUpdates(S[sid].participants[idx], updates)
                 participant == patched.obj
             IN  IF patched.raised
                 THEN Response(500, [S EXCEPT ![sid].participants[idx] = participant],
                               I, N, <<>>)
                 ELSE Response(200,
                               [S EXCEPT ![sid] =
                                   Touch([@ EXCEPT !.participants[idx] = participant], t)],
                               I, N, <<participant>>)

(***************************************************************************)
(* Bill items.                                                             *)
(***************************************************************************)
ItemCreates == {[price |-> RInt(10), quantity |-> 2]}

NewItem(item_id, session_id, data) ==
    [id |-> item_id,
     sessionId |-> session_id,
     price |-> data.price,
     quantity |-> data.quantity]

add_item(S, I, N, t, session_id, data) ==
    IF session_id \notin DOMAIN S
    THEN Response(404, S, I, N, <<>>)
    ELSE LET item == NewItem(NewId(N, "i"), session_id, data)
         IN  Response(201,
                      [S EXCEPT ![session_id] = Touch([@ EXCEPT !.items = Append(@, item)], t)],
                      I, Taken(N, "i"), <<item>>)

\* session.updatedAt = datetime.now() for every session the scan visits
update_item_stamping(S, I, N, t, item_id, updates) ==
    LET owner == ItemOwner(S, item_id)
    IN  IF owner = Nothing
        THEN Response(404, [sid \in DOMAIN S |-> Touch(S[sid], t)], I, N, <<>>)
        ELSE LET sid == The(owner)
                 idx == IndexOf(S[sid].items, item_id)
                 patched == ApplyUpdates(S[sid].items[idx], updates)
                 item == patched.obj
             IN  IF patched.raised
                 THEN Response(500, [S EXCEPT ![sid].items[idx] = item], I, N, <<>>)
                 ELSE Response(200,
                               [S EXCEPT ![sid] = Touch([@ EXCEPT !.items[idx] = item], t)],
                               I, N, <<item>>)

update_item(S, I, N, t, item_id, updates) ==
    LET owner == ItemOwner(S, item_id)
    IN  IF owner = Nothing
        THEN Response(404, S, I, N, <<>>)
        ELSE LET sid == The(owner)
                 idx == IndexOf(S[sid].items, item_id)
                 patched == ApplyUpdates(S[sid].items[idx], updates)
                 item == patched.obj
             IN  IF patched.raised
                 THEN Response(500, [S EXCEPT ![sid].items[idx] = item], I, N, <<>>)
                 ELSE Response(200,
                               [S EXCEPT ![sid] = Touch([@ EXCEPT !.items[idx] = item], t)],
                               I, N, <<item>>)

\* del session.items[idx], and with it every assignment of the item
delete_item_cascading(S, I, N, t, item_id) ==
    LET owner == ItemOwner(S, item_id)
    IN  IF owner = Nothing
        THEN Response(404, S, I, N, <<>>)
        ELSE LET sid == The(owner)
                 idx == IndexOf(S[sid].items, item_id)
             IN  Response(204,
                          [S EXCEPT ![sid] =
                              Touch([@ EXCEPT !.items = RemoveAt(@, idx),
                                              !.assignments =
                                                  SelectSeq(@, LAMBDA a : a.itemId # item_id)],
                                    t)],
                          I, N, <<>>)

delete_item(S, I, N, t, item_id) ==
    LET owner == ItemOwner(S, item_id)
    IN  IF owner = Nothing
        THEN Response(404, S, I, N, <<>>)
        ELSE LET sid == The(owner)
                 idx == IndexOf(S[sid].items, item_id)
             IN  Response(204,
                          [S EXCEPT ![sid] = Touch([@ EXCEPT !.items = RemoveAt(@, idx)], t)],
                          I, N, <<>>)

(***************************************************************************)
(* Item assignments.                                                       *)
(***************************************************************************)
NewAssignment(assignment_id, data) ==
    [id |-> assignment_id,
     itemId |-> data.itemId,
     participantId |-> data.participantId,
     splitPercentage |-> data.splitPercentage,
     amount |-> data.amount]

add_assignment_unsaved(S, I, N, t, data) ==
    LET item == get_item(S, data.itemId)
    IN  IF item = Nothing THEN Response(404, S, I, N, <<>>)
        ELSE IF The(item).sessionId \notin DOMAIN S THEN Response(404, S, I, N, <<>>)
        ELSE Response(201, S, I, Taken(N, "a"), <<NewAssignment(NewId(N, "a"), data)>>)

\* add_assignment that also adds the amount to the amountOwed of the
\* participant assigned, when the session has that participant
add_assignment_charging(S, I, N, t, data) ==
    LET item == get_item(S, data.itemId)
    IN  IF item = Nothing THEN Response(404, S, I, N, <<>>)
        ELSE IF The(item).sessionId \notin DOMAIN S THEN Response(404, S, I, N, <<>>)
        ELSE LET assignment == NewAssignment(NewId(N, "a"), data)
                 sid == The(item).sessionId
                 charged == [k \in DOMAIN S[sid].participants |->
                                IF S[sid].participants[k].id = data.participantId
                                THEN [S[sid].participants[k] EXCEPT
                                         !.amountOwed = RAdd(@, data.amount)]
                                ELSE S[sid].participants[k]]
             IN  Response(201,
                          [S EXCEPT ![sid] =
                              Touch([@ EXCEPT !.assignments = Append(@, assignment),
                                              !.participants = charged], t)],
                          I, Taken(N, "a"), <<assignment>>)

\* SessionManager.add_assignment: body <<>> is the None it returns when the
\* item or the session named by item.sessionId is not found
add_assignment(S, I, N, t, data) ==
    LET item == get_item(S, data.itemId)
    IN  IF item = Nothing THEN Response(404, S, I, N, <<>>)
        ELSE IF The(item).sessionId \notin DOMAIN S THEN Response(404, S, I, N, <<>>)
        ELSE LET assignment == NewAssignment(NewId(N, "a"), data)
             IN  Response(201,
                          [S EXCEPT ![The(item).sessionId] =
                              Touch([@ EXCEPT !.assignments = Append(@, assignment)], t)],
                          I, Taken(N, "a"), <<assignment>>)

\* split_percentage = 1.0 / num_participants if data.splitEqually else 1.0
SplitAlwaysFull(num_participants, splitEqually) == RInt(1)

SplitPercentage(num_participants, splitEqually) ==
    IF splitEqually THEN RDiv(RInt(1), RInt(num_participants)) ELSE RInt(1)

\* amount_per_person = (item.price * item.quantity) * split_percentage
AmountPerUnit(item, split_percentage) == RMul(item.price, split_percentage)

AmountPerPerson(item, split_percentage) ==
    RMul(RMul(item.price, RInt(item.quantity)), split_percentage)

\* the loop of assign_item over data.participantIds from position k on;
\* r is the response built so far, its body the assignments created
RECURSIVE AssignLoop(_, _, _, _, _, _, _)
AssignLoop(r, t, itemId, participantIds, k, split_percentage, amount_per_person) ==
    IF k > Len(participantIds) THEN r
    ELSE LET assignment_data == [itemId |-> itemId,
                                 participantId |-> participantIds[k],
                                 splitPercentage |-> split_percentage,
                                 amount |-> amount_per_person]
             a == add_assignment(r.sessions, r.sessions_by_code, r.nextId, t, assignment_data)
         IN  AssignLoop(Response(200, a.sessions, a.sessions_by_code, a.nextId,
                                 r.body \o a.body),
                        t, itemId, participantIds, k + 1, split_percentage, amount_per_person)

\* the checks of assign_item, in the order the handler makes them: 404 for an
\* unknown item, then 400 for an empty participant list
AssignStatusEmptyFirst(item, num_participants) ==
    IF num_participants = 0 THEN 400
    ELSE IF item = Nothing THEN 404
    ELSE 200

AssignStatus(item, num_participants) ==
    IF item = Nothing THEN 404
    ELSE IF num_participants = 0 THEN 400
    ELSE 200

\* POST /api/sessions/items/assign
assign_item(S, I, N, t, itemId, participantIds, splitEqually) ==
    LET item == get_item(S, itemId)
        num_participants == Len(participantIds)
        status == AssignStatus(item, num_participants)
    IN  IF status # 200 THEN Response(status, S, I, N, <<>>)
        ELSE LET split_percentage == SplitPercentage(num_participants, splitEqually)
             IN  AssignLoop(Response(200, S, I, N, <<>>), t, itemId, participantIds, 1,
                            split_percentage, AmountPerPerson(The(item), split_percentage))

\* PUT /api/sessions/assignments/{assignment_id}: patches the assignment in
\* place and returns it; session.updatedAt is not assigned
update_assignment(S, I, N, t, assignment_id, updates) ==
    LET owner == AssignmentOwner(S, assignment_id)
    IN  IF owner = Nothing
        THEN Response(404, S, I, N, <<>>)
        ELSE LET sid == The(owner)
                 idx == IndexOf(S[sid].assignments, assignment_id)
                 patched == ApplyUpdates(S[sid].assignments[idx], updates)
                 assignment == patched.obj
             IN  Response(IF patched.raised THEN 500 ELSE 200,
                          [S EXCEPT ![sid].assignments[idx] = assignment],
                          I, N, IF patched.raised THEN <<>> ELSE <<assignment>>)

delete_assignment(S, I, N, t, assignment_id) ==
    LET owner == AssignmentOwner(S, assignment_id)
    IN  IF owner = Nothing
        THEN Response(404, S, I, N, <<>>)
        ELSE LET sid == The(owner)
                 idx == IndexOf(S[sid].assignments, assignment_id)
             IN  Response(204,
                          [S EXCEPT ![sid] = Touch([@ EXCEPT !.assignments = RemoveAt(@, idx)], t)],
                          I, N, <<>>)

(***************************************************************************)
(* The inputs of the requests.                                             *)
(***************************************************************************)
\* a timestamp a client may send that is not the server's clock reading
StaleTime == 0 - 1

\* request bodies of the update handlers (updates: dict): fields of the
\* object, "foo" (no attribute of it) and "copy" (an attribute, not a field)
SessionUpdates ==
    {<<Item("sessionCode", code)>> : code \in Codes}
    \cup {<<Item("participants", <<>>), Item("updatedAt", StaleTime), Item("foo", 1)>>,
          <<Item("participants", <<>>), Item("copy", 1)>>}

ParticipantUpdates == {<<Item("paymentStatus", "paid"), Item("foo", 1)>>, <<Item("copy", 1)>>}

ItemUpdates == {<<Item("price", RInt(5)), Item("foo", 1)>>, <<Item("copy", 1)>>}

AssignmentUpdates == {<<Item("amount", RInt(1)), Item("foo", 1)>>, <<Item("copy", 1)>>}

\* the participantIds of the requests served
ParticipantIdLists == SeqsUpTo(ParticipantIds, MaxAssignments)

\* the participantIds a request may carry (they are not checked against the
\* store): ids of participants and an id that is no participant's, in lists
\* longer than the ones served
ParticipantIdInputs == IdsOf("p", MaxParticipants + 1)
AnyParticipantIdLists == SeqsUpTo(ParticipantIdInputs, MaxAssignments + 1)

(***************************************************************************)
(* The state machine.                                                      *)
(***************************************************************************)
\* SessionManager.__init__, no request being served
InitStore ==
    /\ sessions = <<>>
    /\ sessions_by_code = <<>>
    /\ now = 0
    /\ nextId = [s |-> 1, p |-> 1, i |-> 1, a |-> 1]
    /\ deleted = {}
    /\ pc = "idle"
    /\ candidate = <<>>

Init ==
    /\ InitStore
    /\ receipt_data = [has_items |-> FALSE, items |-> {}, subtotal |-> {}, tax |-> {},
                       tip |-> {}, total |-> {}]
    /\ rounding = [total |-> 0, items |-> 0]
    /\ validation = {}
    /\ receipts = <<>>
    /\ pending = {}
    /\ answered = {}

IdsIn(list) == {list[k].id : k \in DOMAIN list}

\* what `deleted` keeps of a session
Gone(session) ==
    [id |-> session.id,
     sessionCode |-> session.sessionCode,
     participants |-> IdsIn(session.participants),
     items |-> IdsIn(session.items),
     assignments |-> IdsIn(session.assignments)]

\* the supply of identifiers of the model
WithinBounds(N) ==
    /\ N.s <= MaxSessions + 1
    /\ N.p <= MaxParticipants + 1
    /\ N.i <= MaxItems + 1
    /\ N.a <= MaxAssignments + 1

\* the request is served: the store becomes the store of the response
Serve(r) ==
    /\ pc = "idle"
    /\ WithinBounds(r.nextId)
    /\ sessions' = r.sessions
    /\ sessions_by_code' = r.sessions_by_code
    /\ nextId' = r.nextId
    /\ UNCHANGED <<now, pc, candidate>>
    /\ UNCHANGED receipt_vars
    /\ UNCHANGED request_vars

\* time passes between two requests
Tick ==
    /\ pc = "idle"
    /\ now < MaxClock
    /\ now' = now + 1
    /\ UNCHANGED <<sessions, sessions_by_code, nextId, deleted, pc, candidate>>
    /\ UNCHANGED receipt_vars
    /\ UNCHANGED request_vars

CreateSession ==
    \E data \in SessionCreates, code \in FreeCodes(sessions_by_code) :
        /\ Serve(create_session(sessions, sessions_by_code, nextId, now, data, code))
        /\ UNCHANGED deleted

UpdateSession ==
    \E id \in SessionIds, updates \in SessionUpdates :
        /\ Serve(update_session(sessions, sessions_by_code, nextId, now, id, updates))
        /\ UNCHANGED deleted

DeleteSession ==
    \E id \in SessionIds :
        /\ Serve(delete_session(sessions, sessions_by_code, nextId, now, id))
        /\ deleted' = IF id \in DOMAIN sessions
                      THEN deleted \cup {Gone(sessions[id])}
                      ELSE deleted

AddParticipant ==
    \E id \in SessionIds, name \in GuestNames :
        /\ Serve(add_participant(sessions, sessions_by_code, nextId, now, id,
                                 ParticipantCreate(name)))
        /\ UNCHANGED deleted

JoinSession ==
    \E code \in CodeInputs, name \in GuestNames :
        /\ Serve(join_session(sessions, sessions_by_code, nextId, now, code, name))
        /\ UNCHANGED deleted

UpdateParticipant ==
    \E id \in ParticipantIds, updates \in ParticipantUpdates :
        /\ Serve(update_participant(sessions, sessions_by_code, nextId, now, id, updates))
        /\ UNCHANGED deleted

AddItem ==
    \E id \in SessionIds, data \in ItemCreates :
        /\ Serve(add_item(sessions, sessions_by_code, nextId, now, id, data))
        /\ UNCHANGED deleted

UpdateItem ==
    \E id \in ItemIds, updates \in ItemUpdates :
        /\ Serve(update_item(sessions, sessions_by_code, nextId, now, id, updates))
        /\ UNCHANGED deleted

DeleteItem ==
    \E id \in ItemIds :
        /\ Serve(delete_item(sessions, sessions_by_code, nextId, now, id))
        /\ UNCHANGED deleted

AssignItem ==
    \E id \in ItemIds, pids \in ParticipantIdLists, eq \in BOOLEAN :
        /\ Serve(assign_item(sessions, sessions_by_code, nextId, now, id, pids, eq))
        /\ UNCHANGED deleted

UpdateAssignment ==
    \E id \in AssignmentIds, updates \in AssignmentUpdates :
        /\ Serve(update_assignment(sessions, sessions_by_code, nextId, now, id, updates))
        /\ UNCHANGED deleted

DeleteAssignment ==
    \E id \in AssignmentIds :
        /\ Serve(delete_assignment(sessions, sessions_by_code, nextId, now, id))
        /\ UNCHANGED deleted

Next ==
    \/ CreateSession
    \/ UpdateSession
    \/ DeleteSession
    \/ AddParticipant
    \/ JoinSession
    \/ UpdateParticipant
    \/ AddItem
    \/ UpdateItem
    \/ DeleteItem
    \/ AssignItem
    \/ UpdateAssignment
    \/ DeleteAssignment

\* requests served within one reading of the clock
Spec == Init /\ [][Next]_vars

\* requests served while time passes
NextTimed == Tick \/ Next

SpecTimed == Init /\ [][NextTimed]_vars

(***************************************************************************)
(* create_session step by step: the retry loop of _generate_session_code.  *)
(* The handler does not await, so no other request is served while the     *)
(* loop runs.                                                              *)
(***************************************************************************)
\* the calls of create_session followed: one more than there are codes
MaxCalls == Cardinality(Codes) + 1

\* POST /api/sessions arrives; session_id = self._generate_id() is drawn
\* when the session is built
CallCreateSession ==
    /\ pc = "idle"
    /\ nextId.s <= MaxCalls
    /\ pc' = "draw"
    /\ UNCHANGED <<sessions, sessions_by_code, now, nextId, deleted, candidate>>
    /\ UNCHANGED receipt_vars
    /\ UNCHANGED request_vars

\* code = ''.join(random.choices(string.ascii_uppercase + string.digits, k=6))
DrawCode(code) ==
    /\ pc = "draw"
    /\ candidate' = code
    /\ pc' = "test"
    /\ UNCHANGED <<sessions, sessions_by_code, now, nextId, deleted>>
    /\ UNCHANGED receipt_vars
    /\ UNCHANGED request_vars

\* if code not in self.sessions_by_code: return code, and create_session
\* builds and stores the session; otherwise the loop goes round
TestCode ==
    /\ pc = "test"
    /\ IF candidate \notin DOMAIN sessions_by_code
       THEN LET data == CHOOSE data \in SessionCreates : TRUE
                r == create_session(sessions, sessions_by_code, nextId, now, data,
                                    candidate)
            IN  /\ sessions' = r.sessions
                /\ sessions_by_code' = r.sessions_by_code
                /\ nextId' = r.nextId
                /\ pc' = "idle"
       ELSE /\ pc' = "draw"
            /\ UNCHANGED <<sessions, sessions_by_code, nextId>>
    /\ UNCHANGED <<now, deleted, candidate>>
    /\ UNCHANGED receipt_vars
    /\ UNCHANGED request_vars

NextLoop ==
    \/ CallCreateSession
    \/ \E code \in Codes : DrawCode(code)
    \/ TestCode
    \/ UpdateSession
    \/ DeleteSession
    \/ AddParticipant

\* random.choices gives every code a positive probability: a code that can
\* be drawn again and again is drawn; the loop itself keeps running
FairChoice ==
    /\ WF_vars(TestCode)
    /\ \A code \in Codes : SF_vars(DrawCode(code))

SpecLoop == Init /\ [][NextLoop]_vars /\ FairChoice

(***************************************************************************)
(* Requests in flight.  uvicorn.run serves the application in one process  *)
(* on one event loop.  A request is received (its body read and parsed)    *)
(* while other requests are in flight; its handler is then called on the   *)
(* loop.  join_session and assign_item are `async def` and contain no      *)
(* await, no thread and no executor call: the loop runs the handler from   *)
(* its first statement to its return before it runs anything else.  The    *)
(* interleavings the handlers admit are therefore the orders in which the  *)
(* handlers of the requests in flight are called.                          *)
(***************************************************************************)
\* the requests followed from arrival to response
MaxRequests == 2

JoinRequests ==
    {[kind |-> "join", sessionCode |-> code, guestName |-> name] :
        code \in CodeInputs, name \in GuestNames}

AssignRequests ==
    {[kind |-> "assign", itemId |-> id, participantIds |-> pids, splitEqually |-> eq] :
        id \in ItemIds, pids \in ParticipantIdLists \ {<<>>}, eq \in BOOLEAN}

\* the request is in flight; n is its position in the order of arrival
Receive(request) ==
    /\ pc = "idle"
    /\ Cardinality(pending) + Cardinality(answered) < MaxRequests
    /\ pending' = pending \cup {[n |-> Cardinality(pending) + Cardinality(answered) + 1,
                                  request |-> request]}
    /\ UNCHANGED answered
    /\ UNCHANGED store_vars
    /\ UNCHANGED receipt_vars

ReceiveJoin == \E request \in JoinRequests : Receive(request)

ReceiveAssign == \E request \in AssignRequests : Receive(request)

\* the handler of the request q is called and runs to its return: the store
\* becomes the store of its response r, the response is sent
Handle(q, r, created) ==
    /\ pc = "idle"
    /\ sessions' = r.sessions
    /\ sessions_by_code' = r.sessions_by_code
    /\ nextId' = r.nextId
    /\ pending' = pending \ {q}
    /\ answered' = answered \cup {[n |-> q.n, request |-> q.request,
                                    status |-> r.status, created |-> created]}
    /\ UNCHANGED <<now, deleted, pc, candidate>>
    /\ UNCHANGED receipt_vars

\* join_session returns JoinSessionResponse(session, participant)
HandleJoin ==
    \E q \in pending :
        /\ q.request.kind = "join"
        /\ LET r == join_session(sessions, sessions_by_code, nextId, now,
                                 q.request.sessionCode, q.request.guestName)
           IN  Handle(q, r, IF r.status = 200 THEN {r.body[2].id} ELSE {})

\* assign_item returns the list of the assignments it created
HandleAssign ==
    \E q \in pending :
        /\ q.request.kind = "assign"
        /\ LET r == assign_item(sessions, sessions_by_code, nextId, now, q.request.itemId,
                                q.request.participantIds, q.request.splitEqually)
           IN  Handle(q, r, IdsIn(r.body))

\* a session and an item are created, then requests arrive and are handled
NextConcurrent ==
    \/ (pending = {} /\ answered = {} /\ CreateSession)
    \/ (pending = {} /\ answered = {} /\ AddItem)
    \/ ReceiveJoin
    \/ ReceiveAssign
    \/ HandleJoin
    \/ HandleAssign

SpecConcurrent == Init /\ [][NextConcurrent]_vars

(***************************************************************************)
(* The receipt validator, ReceiptParser._validate_receipt.                 *)
(*                                                                         *)
(* receipt_data is the dict parsed from the vision model's answer: a       *)
(* number or null (Nothing) for subtotal, tax, tip and total; for items a  *)
(* missing key (has_items = FALSE), null (Nothing) or a list of dicts      *)
(* with a price and a quantity, each a number or null.                     *)
(***************************************************************************)
TwoCents == Rat(2, 100)

\* `x > bound` in float arithmetic, x having been computed with a rounding
\* error of sign err
FloatExceeds(x, bound, err) ==
    \/ ~RLeq(x, bound)
    \/ x = bound /\ err > 0

\* receipt_data.get('items', [])
GetItems(data) == IF data.has_items THEN data.items ELSE Some(<<>>)

\* `not items`: None or the empty list
NotItems(items) == items = Nothing \/ The(items) = <<>>

\* `tip or 0`, and `if tip:` before the addition
OrZero(x) == IF x = Nothing THEN RInt(0) ELSE The(x)

\* subtotal + tax, plus tip when tip is truthy
CalculatedTotal(data) == RAdd(RAdd(The(data.subtotal), The(data.tax)), OrZero(data.tip))

\* (item.get('price') or 0) * (item.get('quantity') or 1)
ItemAmount(item) ==
    RMul(OrZero(item.price),
         IF item.quantity = Nothing \/ The(item.quantity) = 0
         THEN RInt(1)
         ELSE RInt(The(item.quantity)))

ItemsSum(items) == RSum([k \in DOMAIN items |-> ItemAmount(items[k])])

\* "is_valid": len(issues) == 0
is_valid_no_warnings(issues, warnings) == Len(issues) = 0 /\ Len(warnings) = 0

is_valid(issues, warnings) == Len(issues) = 0

\* the check of the total: the issue it appends
MathIssue(data, err) ==
    IF data.subtotal # Nothing /\ data.tax # Nothing /\ data.total # Nothing
    THEN IF FloatExceeds(RAbs(RSub(CalculatedTotal(data), The(data.total))), TwoCents, err)
         THEN <<"math">>
         ELSE <<>>
    ELSE <<>>

\* the check of the items against the subtotal: the warning it appends
ItemsWarning(data, err) ==
    IF ~NotItems(GetItems(data)) /\ data.subtotal # Nothing
    THEN IF FloatExceeds(RAbs(RSub(ItemsSum(The(GetItems(data))), The(data.subtotal))),
                         TwoCents, err)
         THEN <<"items_sum">>
         ELSE <<>>
    ELSE <<>>

validate_receipt(data, err) ==
    LET issues == (IF NotItems(GetItems(data)) THEN <<"no_items">> ELSE <<>>)
                  \o MathIssue(data, err.total)
        warnings == (IF data.total = Nothing THEN <<"no_total">> ELSE <<>>)
                    \o ItemsWarning(data, err.items)
    IN  [is_valid |-> is_valid(issues, warnings), issues |-> issues, warnings |-> warnings]

\* the receipts validated
Cents(c) == Rat(c, 100)

ReceiptItem(price, quantity) == [price |-> price, quantity |-> quantity]

ItemLists ==
    {<<>>,
     <<ReceiptItem(Some(RInt(10)), Some(1))>>,
     <<ReceiptItem(Some(RInt(5)), Some(1))>>,
     <<ReceiptItem(Some(RInt(5)), Some(2))>>,
     <<ReceiptItem(Some(RInt(10)), Some(0))>>,
     <<ReceiptItem(Some(RInt(10)), Nothing)>>,
     <<ReceiptItem(Nothing, Nothing)>>,
     <<ReceiptItem(Some(Cents(102)), Some(1))>>,
     <<ReceiptItem(Some(RInt(5)), Some(1)), ReceiptItem(Some(RInt(5)), Some(1))>>}

Subtotals == {Nothing, Some(RInt(1)), Some(RInt(10))}
Taxes == {Nothing, Some(Cents(2)), Some(RInt(1))}
Tips == {Nothing, Some(RInt(0)), Some(RInt(2))}
Totals == {Nothing, Some(RInt(1)), Some(RInt(11)), Some(RInt(13)), Some(RInt(20))}

ReceiptDatas ==
    {[has_items |-> present, items |-> items, subtotal |-> subtotal, tax |-> tax,
      tip |-> tip, total |-> total] :
        present \in {TRUE}, items \in {Nothing} \cup {Some(l) : l \in ItemLists},
        subtotal \in Subtotals, tax \in Taxes, tip \in Tips, total \in Totals}
    \cup
    {[has_items |-> FALSE, items |-> Nothing, subtotal |-> subtotal, tax |-> tax,
      tip |-> tip, total |-> total] :
        subtotal \in Subtotals, tax \in Taxes, tip \in Tips, total \in Totals}

Roundings == [total : {0 - 1, 0, 1}, items : {0 - 1, 0, 1}]

InitValidate ==
    /\ InitStore
    /\ receipt_data \in ReceiptDatas
    /\ rounding \in Roundings
    /\ validation = Nothing
    /\ receipts = <<>>
    /\ pending = {}
    /\ answered = {}

\* receipt_data['validation'] = self._validate_receipt(receipt_data)
Validate ==
    /\ validation = Nothing
    /\ validation' = Some(validate_receipt(receipt_data, rounding))
    /\ UNCHANGED <<receipt_data, rounding, receipts>>
    /\ UNCHANGED store_vars
    /\ UNCHANGED request_vars

NextValidate == Validate

SpecValidate == InitValidate /\ [][NextValidate]_vars

(***************************************************************************)
(* The receipt handlers (backend/app/routes/receipts.py).  A handler is an *)
(* operator from the dict R = session_manager.receipts and its arguments   *)
(* to the status, the dict it leaves and the body.  What the vision model  *)
(* answers is an input of scan_receipt: parse_receipt raises (ok = FALSE)  *)
(* or returns the dict parsed from the answer.                             *)
(***************************************************************************)
MaxReceipts == 2

ReceiptIds == IdsOf("r", MaxReceipts)

\* f"{receipt_id}_image" and receipt_id, the two kinds of key of the dict
ImageKey(receipt_id) == <<"image", receipt_id>>
DataKey(receipt_id) == <<"data", receipt_id>>

\* dict.get(key)
Lookup(R, key) == IF key \in DOMAIN R THEN Some(R[key]) ELSE Nothing

\* str(uuid.uuid4()): an id no upload has returned
NewReceiptId(R) == <<"r", Cardinality({key \in DOMAIN R : key[1] = "image"}) + 1>>

\* image.content_type as <<type, subtype>>, Nothing when the part has none
ContentTypes == {Nothing, Some(<<"image", "png">>), Some(<<"text", "plain">>)}

\* the bytes of the uploaded file: an empty file, a file with content
Images == {<<>>, <<137, 80>>}

ReceiptResponse(status, R, body) == [status |-> status, receipts |-> R, body |-> body]

upload_receipt(R, content_type, image_data) ==
    IF content_type = Nothing \/ The(content_type)[1] # "image"
    THEN ReceiptResponse(400, R, <<>>)
    ELSE LET receipt_id == NewReceiptId(R)
         IN  ReceiptResponse(201, Put(R, ImageKey(receipt_id), image_data),
                             [receiptId |-> receipt_id])

\* an element of items in the parser's answer; name is a string or null
ScanItem(name, price, quantity) == [name |-> name, price |-> price, quantity |-> quantity]

ScanItemLists ==
    {<<>>,
     <<ScanItem(Some("Burger"), Some(RInt(10)), Some(1))>>,
     <<ScanItem(Some("Burger"), Some(RInt(5)), Nothing)>>,
     <<ScanItem(Nothing, Some(RInt(10)), Some(1))>>}

ScanDatas ==
    {[has_items |-> TRUE, items |-> items, subtotal |-> subtotal, tax |-> Some(RInt(1)),
      tip |-> Nothing, total |-> total] :
        items \in {Nothing} \cup {Some(l) : l \in ScanItemLists},
        subtotal \in {Nothing, Some(RInt(10))},
        total \in {Nothing, Some(RInt(11)), Some(RInt(20))}}
    \cup
    {[has_items |-> FALSE, items |-> Nothing, subtotal |-> Some(RInt(10)),
      tax |-> Some(RInt(1)), tip |-> Nothing, total |-> Some(RInt(11))]}

ParserOutcomes ==
    {[ok |-> FALSE]}
    \cup {[ok |-> TRUE, data |-> data, rounding |-> [total |-> 0, items |-> 0]] :
             data \in ScanDatas}

\* parse_receipt: the parsed dict with receipt_data['validation'] added
Parsed(outcome) ==
    [key \in DOMAIN outcome.data \cup {"validation"} |->
        IF key = "validation"
        THEN validate_receipt(outcome.data, outcome.rounding)
        ELSE outcome.data[key]]

\* BillItemCreate(name=..., price=... or 0.0, quantity=... or 1, lineNumber=idx + 1)
ToBillItemCreate(item, idx) ==
    [name |-> The(item.name),
     price |-> OrZero(item.price),
     quantity |-> IF item.quantity = Nothing \/ The(item.quantity) = 0
                  THEN 1
                  ELSE The(item.quantity),
     lineNumber |-> idx]

\* Receipt(id=..., items=..., subtotal=... or 0.0, ...)
ToReceipt(receipt_id, data) ==
    [id |-> receipt_id,
     items |-> [idx \in DOMAIN The(GetItems(data)) |->
                   ToBillItemCreate(The(GetItems(data))[idx], idx)],
     subtotal |-> OrZero(data.subtotal),
     tax |-> OrZero(data.tax),
     tip |-> OrZero(data.tip),
     total |-> OrZero(data.total)]

\* the conversion raises: enumerate(None) for items null, and the str field
\* name of BillItemCreate refuses None
ConversionRaises(data) ==
    \/ GetItems(data) = Nothing
    \/ \E idx \in DOMAIN The(GetItems(data)) : The(GetItems(data))[idx].name = Nothing

scan_receipt(R, receipt_id, outcome) ==
    LET image_data == Lookup(R, ImageKey(receipt_id))
    IN  IF image_data = Nothing \/ The(image_data) = <<>>
        THEN ReceiptResponse(404, R, <<>>)
        ELSE IF ~outcome.ok
        THEN ReceiptResponse(500, R, <<>>)
        ELSE IF ConversionRaises(outcome.data)
        THEN ReceiptResponse(500, R, <<>>)
        ELSE ReceiptResponse(200, Put(R, DataKey(receipt_id), Parsed(outcome)),
                             ToReceipt(receipt_id, outcome.data))

get_receipt(R, receipt_id) ==
    LET data == Lookup(R, DataKey(receipt_id))
    IN  IF data = Nothing
        THEN ReceiptResponse(404, R, <<>>)
        ELSE ReceiptResponse(200, R, ToReceipt(receipt_id, The(data)))

\* the request is served: the dict becomes the dict of the response
ServeReceipt(r) ==
    /\ receipts' = r.receipts
    /\ UNCHANGED <<receipt_data, rounding, validation>>

UploadReceipt ==
    \E content_type \in ContentTypes, image_data \in Images :
        /\ NewReceiptId(receipts) \in ReceiptIds
        /\ ServeReceipt(upload_receipt(receipts, content_type, image_data))
        /\ UNCHANGED store_vars
        /\ UNCHANGED request_vars

ScanReceipt ==
    \E receipt_id \in ReceiptIds, outcome \in ParserOutcomes :
        /\ ServeReceipt(scan_receipt(receipts, receipt_id, outcome))
        /\ UNCHANGED store_vars
        /\ UNCHANGED request_vars

GetReceipt ==
    \E receipt_id \in ReceiptIds :
        /\ ServeReceipt(get_receipt(receipts, receipt_id))
        /\ UNCHANGED store_vars
        /\ UNCHANGED request_vars

NextReceipts ==
    \/ UploadReceipt
    \/ ScanReceipt
    \/ GetReceipt

SpecReceipts == Init /\ [][NextReceipts]_vars

(***************************************************************************)
(* Properties.                                                             *)
(*                                                                         *)
(* A property of a handler is stated over its response in every reachable  *)
(* state and for every input: the store the handler finds is `sessions`,   *)
(* `sessions_by_code`, `nextId` at time `now`.                             *)
(***************************************************************************)
Live == DOMAIN sessions

KnownItems == {itemId \in ItemIds : get_item(sessions, itemId) # Nothing}

Deleting(id) == delete_session(sessions, sessions_by_code, nextId, now, id)

Assigning(itemId, participantIds, splitEqually) ==
    assign_item(sessions, sessions_by_code, nextId, now, itemId, participantIds, splitEqually)

Joining(sessionCode, guestName) ==
    join_session(sessions, sessions_by_code, nextId, now, sessionCode, guestName)

Updating(id, updates) ==
    update_session(sessions, sessions_by_code, nextId, now, id, updates)

\* ---- C1 ----------------------------------------------------------------
\* C1: in every reachable state no two live sessions have the same
\* sessionCode.
C1_UniqueSessionCodes ==
    \A a \in Live, b \in Live :
        a # b => sessions[a].sessionCode # sessions[b].sessionCode

\* ---- C2 ----------------------------------------------------------------
\* C2: a deleted session is never found by its id again, and right after
\* delete_session(id) on a live session a lookup by the code the session
\* held finds nothing (in the store and through the route, in any spelling)
\* and the code is one _generate_session_code may return.
C2_DeletionFinal ==
    /\ \A d \in deleted :
          /\ get_session(sessions, d.id) = Nothing
          /\ d.sessionCode \in DOMAIN sessions_by_code
                => sessions_by_code[d.sessionCode] # d.id
    /\ \A id \in Live :
          LET code == sessions[id].sessionCode
              r == Deleting(id)
          IN  /\ get_session(r.sessions, id) = Nothing
              /\ get_session_by_code(r.sessions, r.sessions_by_code, code) = Nothing
              /\ \A spelling \in CodeInputs :
                    Upper(spelling) = code =>
                        route_get_session_by_code(r.sessions, r.sessions_by_code,
                                                  spelling) = Nothing
              /\ code \in FreeCodes(r.sessions_by_code)

\* the code of a deleted session has been given to a session created later
C2_CodeReused ==
    \E d \in deleted :
        /\ d.sessionCode \in DOMAIN sessions_by_code
        /\ sessions_by_code[d.sessionCode] \in Live
        /\ sessions[sessions_by_code[d.sessionCode]].sessionCode = d.sessionCode
        /\ sessions_by_code[d.sessionCode][2] > d.id[2]

\* ---- C3 ----------------------------------------------------------------
\* C3: every live session is found by its sessionCode: the store lookup by
\* the code returns that session, and so does the route for every
\* upper/lower-case spelling of the code.
C3_FoundByCode ==
    \A id \in Live :
        /\ get_session_by_code(sessions, sessions_by_code, sessions[id].sessionCode)
               = Some(sessions[id])
        /\ \A spelling \in CodeInputs :
              Upper(spelling) = sessions[id].sessionCode =>
                  route_get_session_by_code(sessions, sessions_by_code, spelling)
                      = Some(sessions[id])

\* ---- C4 ----------------------------------------------------------------
\* every handler that addresses a participant, an item or an assignment the
\* session g owned answers NotFound in the store S
Unaddressable(S, g) ==
    /\ \A id \in g.participants, updates \in ParticipantUpdates :
          update_participant(S, sessions_by_code, nextId, now, id, updates).status = 404
    /\ \A id \in g.items :
          /\ \A updates \in ItemUpdates :
                update_item(S, sessions_by_code, nextId, now, id, updates).status = 404
          /\ delete_item(S, sessions_by_code, nextId, now, id).status = 404
          /\ get_item(S, id) = Nothing
          /\ \A pid \in ParticipantIdInputs :
                add_assignment(S, sessions_by_code, nextId, now,
                               [itemId |-> id, participantId |-> pid,
                                splitPercentage |-> RInt(1), amount |-> RInt(1)]).status = 404
          /\ \A pids \in AnyParticipantIdLists \ {<<>>}, eq \in BOOLEAN :
                assign_item(S, sessions_by_code, nextId, now, id, pids, eq).status = 404
    /\ \A id \in g.assignments :
          /\ \A updates \in AssignmentUpdates :
                update_assignment(S, sessions_by_code, nextId, now, id, updates).status = 404
          /\ delete_assignment(S, sessions_by_code, nextId, now, id).status = 404

\* C4: the participants, items and assignments of a deleted session are
\* unaddressable, right after delete_session and ever after.
C4_DeleteCascades ==
    /\ \A d \in deleted : Unaddressable(sessions, d)
    /\ \A id \in Live : Unaddressable(Deleting(id).sessions, Gone(sessions[id]))

\* a session that owned a participant, an item and an assignment was deleted
C4_DeletedWithEntities ==
    \E d \in deleted : d.participants # {} /\ d.items # {} /\ d.assignments # {}

\* ---- C5 ----------------------------------------------------------------
Successful(r) == r.status \in {200, 201, 204}

\* every session the successful response r has changed has updatedAt no
\* earlier than before, and later when the clock has passed it
Advances(r) ==
    Successful(r) =>
        \A id \in Live \cap DOMAIN r.sessions :
            r.sessions[id] # sessions[id] =>
                /\ r.sessions[id].updatedAt >= sessions[id].updatedAt
                /\ now > sessions[id].updatedAt =>
                       r.sessions[id].updatedAt > sessions[id].updatedAt

\* C5: every successful mutation of a session or of an entity it owns
\* (session update; participant add/update; item add/update/delete;
\* assignment add/update/delete) leaves updatedAt' >= updatedAt, and
\* updatedAt' > updatedAt when the clock has advanced past updatedAt.
C5_UpdatedAtAdvances ==
    /\ \A id \in SessionIds :
          /\ \A updates \in SessionUpdates : Advances(Updating(id, updates))
          /\ \A name \in GuestNames :
                Advances(add_participant(sessions, sessions_by_code, nextId, now, id,
                                         ParticipantCreate(name)))
          /\ \A data \in ItemCreates :
                Advances(add_item(sessions, sessions_by_code, nextId, now, id, data))
    /\ \A code \in CodeInputs, name \in GuestNames : Advances(Joining(code, name))
    /\ \A id \in ParticipantIds, updates \in ParticipantUpdates :
          Advances(update_participant(sessions, sessions_by_code, nextId, now, id, updates))
    /\ \A id \in ItemIds :
          /\ \A updates \in ItemUpdates :
                Advances(update_item(sessions, sessions_by_code, nextId, now, id, updates))
          /\ Advances(delete_item(sessions, sessions_by_code, nextId, now, id))
          /\ \A pids \in AnyParticipantIdLists, eq \in BOOLEAN :
                Advances(Assigning(id, pids, eq))
    /\ \A id \in AssignmentIds :
          /\ \A updates \in AssignmentUpdates :
                Advances(update_assignment(sessions, sessions_by_code, nextId, now, id,
                                           updates))
          /\ Advances(delete_assignment(sessions, sessions_by_code, nextId, now, id))

C7_EmptyListAlways400 ==
    \A itemId \in ItemIds, eq \in BOOLEAN :
        LET r == Assigning(itemId, <<>>, eq)
        IN  /\ r.status = 400
            /\ r.sessions = sessions

\* C7 as amended: assign_item with an empty participantIds always fails and
\* creates no assignment: with 400 when the item id names a known item, with
\* 404 when it names none.
C7_EmptyListRejected ==
    \A itemId \in ItemIds, eq \in BOOLEAN :
        LET r == Assigning(itemId, <<>>, eq)
        IN  /\ r.status = IF itemId \in KnownItems THEN 400 ELSE 404
            /\ r.body = <<>>
            /\ r.sessions = sessions
            /\ r.nextId = nextId

\* an item is known, has assignments, and an empty list for it is answered 400
C7_EmptyListForKnownItem ==
    \E itemId \in KnownItems :
        /\ Assigning(itemId, <<>>, TRUE).status = 400
        /\ \E sid \in Live :
              \E k \in DOMAIN sessions[sid].assignments :
                  sessions[sid].assignments[k].itemId = itemId

\* ---- C8 ----------------------------------------------------------------
Tolerance == Rat(1, 100)

Within(a, b, tolerance) == RLeq(RAbs(RSub(a, b)), tolerance)

LineTotal(item) == RMul(item.price, RInt(item.quantity))

C9_JoinByCode ==
    \A code \in CodeInputs, name \in GuestNames :
        LET r == Joining(code, name)
            named == {id \in Live : sessions[id].sessionCode = Upper(code)}
        IN  IF named = {}
            THEN r.status = 404 /\ r.sessions = sessions
            ELSE /\ r.status = 200
                 /\ \E id \in named :
                       /\ r.sessions[id].participants
                              = Append(sessions[id].participants, r.body[2])
                       /\ r.body[1] = r.sessions[id]
                       /\ ParticipantOwner(sessions, r.body[2].id) = Nothing
                       /\ \A other \in Live \ {id} :
                             r.sessions[other].participants = sessions[other].participants

\* ---- C10 ---------------------------------------------------------------
\* the names the dict updates holds
Keys(updates) == {updates[k].key : k \in DOMAIN updates}

\* the value the dict updates holds under key
ValueOf(updates, key) ==
    updates[CHOOSE k \in DOMAIN updates : updates[k].key = key].value

\* C10: update_session on a live session succeeds, gives every field of the
\* session that the patch names the value of the patch, sets updatedAt to
\* the time of the call, ignores every name of the patch that is no field,
\* keeps every other field, adds no field, and changes no other session and
\* no entry of the code index.
C10_UpdateSessionFrame ==
    \A id \in Live, updates \in SessionUpdates :
        LET r == Updating(id, updates)
            old == sessions[id]
            new == r.sessions[id]
        IN  /\ r.status = 200
            /\ DOMAIN r.sessions = Live
            /\ DOMAIN new = DOMAIN old
            /\ \A field \in DOMAIN old \ {"updatedAt"} :
                  new[field] = IF field \in Keys(updates)
                               THEN ValueOf(updates, field)
                               ELSE old[field]
            /\ new.updatedAt = now
            /\ \A other \in Live \ {id} : r.sessions[other] = sessions[other]
            /\ r.sessions_by_code = sessions_by_code
            /\ r.nextId = nextId

\* ---- C11 ---------------------------------------------------------------
Creating(data, session_code) ==
    create_session(sessions, sessions_by_code, nextId, now, data, session_code)

\* C11: create_session returns a session with an id no session has or had,
\* a code that is no live session's sessionCode, status active, empty items,
\* participants and assignments and createdAt = updatedAt; in the store it
\* leaves, the session is found by its id and, through the route in any
\* spelling, by its code.
C11_CreateSession ==
    \A data \in SessionCreates, code \in FreeCodes(sessions_by_code) :
        LET r == Creating(data, code)
            session == r.body[1]
        IN  /\ r.status = 201
            /\ session.id \notin Live
            /\ \A d \in deleted : d.id # session.id
            /\ session.sessionCode = code
            /\ \A id \in Live : sessions[id].sessionCode # session.sessionCode
            /\ session.status = "active"
            /\ session.items = <<>>
            /\ session.participants = <<>>
            /\ session.assignments = <<>>
            /\ session.createdAt = session.updatedAt
            /\ get_session(r.sessions, session.id) = Some(session)
            /\ get_session_by_code(r.sessions, r.sessions_by_code, session.sessionCode)
                   = Some(session)
            /\ \A spelling \in CodeInputs :
                  Upper(spelling) = session.sessionCode =>
                      route_get_session_by_code(r.sessions, r.sessions_by_code, spelling)
                          = Some(session)

\* ---- C12 ---------------------------------------------------------------
\* C12: a create_session call always returns: from every state in which
\* the call is in the retry loop, the handler eventually completes.
C12_CreateSessionReturns == (pc # "idle") ~> (pc = "idle")

\* while a code is free (no key of the index) the loop does end
CreateSessionReturnsWhileFree ==
    (pc # "idle" /\ FreeCodes(sessions_by_code) # {}) ~> (pc = "idle")

\* the loop runs with every code a key of the index
LoopWithNoFreeCode == pc # "idle" /\ FreeCodes(sessions_by_code) = {}

\* ---- C13 ---------------------------------------------------------------
\* P holds of the response of every handler other than delete_session, for
\* every input
EveryOtherResponse(P(_)) ==
    /\ \A data \in SessionCreates, code \in FreeCodes(sessions_by_code) :
          P(Creating(data, code))
    /\ \A id \in SessionIds :
          /\ \A updates \in SessionUpdates : P(Updating(id, updates))
          /\ \A name \in GuestNames :
                P(add_participant(sessions, sessions_by_code, nextId, now, id,
                                  ParticipantCreate(name)))
          /\ \A data \in ItemCreates :
                P(add_item(sessions, sessions_by_code, nextId, now, id, data))
    /\ \A code \in CodeInputs, name \in GuestNames : P(Joining(code, name))
    /\ \A id \in ParticipantIds, updates \in ParticipantUpdates :
          P(update_participant(sessions, sessions_by_code, nextId, now, id, updates))
    /\ \A id \in ItemIds :
          /\ \A updates \in ItemUpdates :
                P(update_item(sessions, sessions_by_code, nextId, now, id, updates))
          /\ P(delete_item(sessions, sessions_by_code, nextId, now, id))
          /\ \A pids \in AnyParticipantIdLists, eq \in BOOLEAN : P(Assigning(id, pids, eq))
    /\ \A id \in AssignmentIds :
          /\ \A updates \in AssignmentUpdates :
                P(update_assignment(sessions, sessions_by_code, nextId, now, id, updates))
          /\ P(delete_assignment(sessions, sessions_by_code, nextId, now, id))

\* the response leaves every live session live, with every participant it
\* had still in its participants
KeepsParticipants(r) ==
    \A sid \in Live :
        /\ sid \in DOMAIN r.sessions
        /\ IdsIn(sessions[sid].participants) \subseteq IdsIn(r.sessions[sid].participants)

\* C13: no operation other than delete_session removes a participant from
\* the participants of its session: a participant stays in the list of the
\* session it was added to for as long as the session is live.
C13_ParticipantsStay == EveryOtherResponse(KeepsParticipants)

\* ---- C14 ---------------------------------------------------------------
\* the receipt of the exact case: one item of price 10, subtotal 10, tax 1,
\* tip 2, total 13
ExactCase ==
    [has_items |-> TRUE, items |-> Some(<<ReceiptItem(Some(RInt(10)), Some(1))>>),
     subtotal |-> Some(RInt(10)), tax |-> Some(RInt(1)), tip |-> Some(RInt(2)),
     total |-> Some(RInt(13))]

\* C14: the validator's is_valid is true exactly when its issues are empty,
\* whatever the warnings are: a receipt with items and no total is valid
\* and carries a warning, and the exact case is valid with no issue and no
\* warning.
C14_ValidIffNoIssues ==
    \A v \in validation :
        /\ v.is_valid = (v.issues = <<>>)
        /\ ~NotItems(GetItems(receipt_data)) /\ receipt_data.total = Nothing =>
               v.is_valid /\ v.warnings # <<>>
        /\ receipt_data = ExactCase =>
               v = [is_valid |-> TRUE, issues |-> <<>>, warnings |-> <<>>]

\* a receipt with items and no total, and one whose items do not sum to the
\* subtotal, have been validated: warnings, and is_valid
C14_ValidWithWarnings ==
    \E v \in validation :
        /\ v.is_valid
        /\ v.warnings # <<>>
        /\ \/ receipt_data.total = Nothing
           \/ v.warnings = <<"items_sum">>

\* ---- C15 ---------------------------------------------------------------
\* the exact |subtotal + tax + (tip or 0) - total|
TotalDifference(data) == RAbs(RSub(CalculatedTotal(data), The(data.total)))

AllPresent(data) == data.subtotal # Nothing /\ data.tax # Nothing /\ data.total # Nothing

\* C15: the validator reports the total-mismatch issue exactly when
\* subtotal, tax and total are all present and
\* |subtotal + tax + (tip or 0) - total| exceeds two cents: none when one
\* of the three is missing, none for a difference of two cents or less.
C15_TotalMismatch ==
    \A v \in validation :
        ("math" \in Range(v.issues))
            = (AllPresent(receipt_data)
               /\ ~RLeq(TotalDifference(receipt_data), TwoCents))

\* a receipt whose total differs from subtotal + tax + tip by exactly two
\* cents has been validated
C15_TwoCentsApart ==
    \E v \in validation :
        AllPresent(receipt_data) /\ TotalDifference(receipt_data) = TwoCents

\* ---- C16 ---------------------------------------------------------------
\* the exact |sum of (price or 0) * (quantity or 1) - subtotal|
ItemsDifference(data) ==
    RAbs(RSub(ItemsSum(The(GetItems(data))), The(data.subtotal)))

\* C16: for a receipt with items and a subtotal the validator adds the
\* items-sum warning exactly when |sum of (price or 0) * (quantity or 1) -
\* subtotal| exceeds two cents; the check adds no issue, so it never makes
\* the receipt invalid.
C16_ItemsSumWarning ==
    \A v \in validation :
        /\ ("items_sum" \in Range(v.warnings))
               = (/\ ~NotItems(GetItems(receipt_data))
                  /\ receipt_data.subtotal # Nothing
                  /\ ~RLeq(ItemsDifference(receipt_data), TwoCents))
        /\ "items_sum" \notin Range(v.issues)
        /\ v.is_valid = (~NotItems(GetItems(receipt_data)) /\ "math" \notin Range(v.issues))

\* a receipt whose items sum to two cents more than its subtotal has been
\* validated
C16_ItemsTwoCentsApart ==
    \E v \in validation :
        /\ ~NotItems(GetItems(receipt_data))
        /\ receipt_data.subtotal # Nothing
        /\ ItemsDifference(receipt_data) = TwoCents

\* ---- C17 ---------------------------------------------------------------
\* the ids whose uploaded image the scan hands to the parser
Scannable == {id \in ReceiptIds : scan_receipt(receipts, id, [ok |-> FALSE]).status = 500}

ParsedOutcomes == {outcome \in ParserOutcomes : outcome.ok}

\* C17: whenever the parser returns parsed data, valid or with issues, the
\* scan answers 200 with the receipt and stores the parsed data, which
\* get_receipt then returns.
C17_ScanNeverBlocked ==
    \A id \in Scannable, outcome \in ParsedOutcomes :
        LET r == scan_receipt(receipts, id, outcome)
        IN  /\ r.status = 200
            /\ r.body = ToReceipt(id, outcome.data)
            /\ Lookup(r.receipts, DataKey(id)) = Some(Parsed(outcome))
            /\ get_receipt(r.receipts, id).status = 200

\* a receipt whose validation carries an issue has been stored by a scan
C17_StoredWithIssues ==
    \E id \in ReceiptIds :
        /\ DataKey(id) \in DOMAIN receipts
        /\ ~receipts[DataKey(id)].validation.is_valid

\* ---- C18 ---------------------------------------------------------------
\* C18: the Receipt a successful scan returns includes the validation block
\* computed for it.
C18_ScanReturnsValidation ==
    \A id \in ReceiptIds, outcome \in ParsedOutcomes :
        LET r == scan_receipt(receipts, id, outcome)
        IN  r.status = 200 =>
                /\ "validation" \in DOMAIN r.body
                /\ r.body.validation = validate_receipt(outcome.data, outcome.rounding)

\* ---- C19 ---------------------------------------------------------------
\* C19: a scan answers 404 exactly when its id was never uploaded; the id
\* a successful upload returns, whatever the image bytes, scans to 200 or
\* 500.
C19_Scan404IffNeverUploaded ==
    /\ \A id \in ReceiptIds, outcome \in ParserOutcomes :
          (scan_receipt(receipts, id, outcome).status = 404)
              = (ImageKey(id) \notin DOMAIN receipts)
    /\ \A content_type \in ContentTypes, image_data \in Images, outcome \in ParserOutcomes :
          LET u == upload_receipt(receipts, content_type, image_data)
          IN  u.status = 201 =>
                  scan_receipt(u.receipts, u.body.receiptId, outcome).status \in {200, 500}

\* an empty file has been uploaded
C19_EmptyImageUploaded ==
    \E id \in ReceiptIds :
        /\ ImageKey(id) \in DOMAIN receipts
        /\ receipts[ImageKey(id)] = <<>>

\* ---- C20 ---------------------------------------------------------------
\* C20: in every reachable state sessions_by_code has exactly one entry per
\* live session, from the session's sessionCode to its id, and none for a
\* deleted session; so delete_session on a live session completes (204)
\* and removes the session and its entry.
C20_IndexAgrees ==
    /\ \A id \in Live :
          /\ sessions[id].sessionCode \in DOMAIN sessions_by_code
          /\ sessions_by_code[sessions[id].sessionCode] = id
    /\ \A code \in DOMAIN sessions_by_code :
          /\ sessions_by_code[code] \in Live
          /\ sessions[sessions_by_code[code]].sessionCode = code
    /\ \A d \in deleted, code \in DOMAIN sessions_by_code : sessions_by_code[code] # d.id
    /\ \A id \in Live :
          LET r == Deleting(id)
          IN  /\ r.status = 204
              /\ id \notin DOMAIN r.sessions
              /\ sessions[id].sessionCode \notin DOMAIN r.sessions_by_code
              /\ \A code \in DOMAIN r.sessions_by_code : r.sessions_by_code[code] # id

\* a session was deleted and the index still holds an entry for it
C20_StaleEntry ==
    \E d \in deleted, code \in DOMAIN sessions_by_code : sessions_by_code[code] = d.id

C22_AssignmentsReferenceParticipants ==
    \A sid \in Live :
        \A k \in DOMAIN sessions[sid].assignments :
            HasId(sessions[sid].participants, sessions[sid].assignments[k].participantId)

\* a session stores an assignment to a participant of another session
C22_AssignedAcrossSessions ==
    \E sid \in Live, other \in Live :
        /\ sid # other
        /\ \E k \in DOMAIN sessions[sid].assignments :
              /\ ~HasId(sessions[sid].participants,
                        sessions[sid].assignments[k].participantId)
              /\ HasId(sessions[other].participants,
                       sessions[sid].assignments[k].participantId)

\* ---- C23 ---------------------------------------------------------------
\* C23: in every reachable state every stored assignment whose item is still
\* held by a session has amount = item.price * item.quantity * splitPercentage
\* for the price and quantity the item has now.
C23_AmountDerived ==
    \A sid \in Live :
        \A k \in DOMAIN sessions[sid].assignments :
            LET a == sessions[sid].assignments[k]
                item == get_item(sessions, a.itemId)
            IN  item # Nothing => a.amount = RMul(LineTotal(The(item)), a.splitPercentage)

\* update_item has changed the price of an item after it was assigned: the
\* assignment still has the amount computed from the price the item had
C23_StaleAmount ==
    \E sid \in Live :
        \E k \in DOMAIN sessions[sid].assignments, data \in ItemCreates :
            LET a == sessions[sid].assignments[k]
                item == get_item(sessions, a.itemId)
            IN  /\ item # Nothing
                /\ The(item).price # data.price
                /\ The(item).quantity = data.quantity
                /\ a.amount = RMul(LineTotal(data), a.splitPercentage)

\* ---- C24 ---------------------------------------------------------------
\* the amounts of the assignments of the item in a list of assignments
AmountsOf(assignments, itemId) ==
    LET of_item == SelectSeq(assignments, LAMBDA a : a.itemId = itemId)
    IN  [k \in DOMAIN of_item |-> of_item[k].amount]

\* the sum of the amounts of all assignments of the item stored in S
RECURSIVE AssignedSum(_, _, _)
AssignedSum(S, sids, itemId) ==
    IF sids = {} THEN RInt(0)
    ELSE LET sid == CHOOSE x \in sids : TRUE
         IN  RAdd(RSum(AmountsOf(S[sid].assignments, itemId)),
                  AssignedSum(S, sids \ {sid}, itemId))

AssignedTotal(S, itemId) == AssignedSum(S, DOMAIN S, itemId)

\* C24: an equal-split assign_item on an item that has no assignment, or
\* whose assignments sum to its line total, leaves the assignments of the
\* item summing to the line total price * quantity: the assignments stored
\* by earlier requests are not counted in addition.
C24_EqualSplitsSumToLineTotal ==
    \A itemId \in KnownItems, pids \in AnyParticipantIdLists \ {<<>>} :
        LET item == The(get_item(sessions, itemId))
            before == AssignedTotal(sessions, itemId)
            r == Assigning(itemId, pids, TRUE)
        IN  before \in {RInt(0), LineTotal(item)} =>
                AssignedTotal(r.sessions, itemId) = LineTotal(item)

\* two equal splits of the same item are stored: each request's amounts sum
\* to the line total, and together they sum to twice the line total
C24_CountedTwice ==
    \E sid \in Live, itemId \in KnownItems :
        LET stored == sessions[sid].assignments
            item == The(get_item(sessions, itemId))
        IN  /\ Len(stored) = 2
            /\ \A k \in 1..2 :
                  /\ stored[k].itemId = itemId
                  /\ stored[k].splitPercentage = RInt(1)
                  /\ stored[k].amount = LineTotal(item)
            /\ stored[1].participantId = stored[2].participantId
            /\ AssignedTotal(sessions, itemId) = RMul(RInt(2), LineTotal(item))

EntriesOf(I, sid) == {code \in DOMAIN I : I[code] = sid}

\* the response leaves every live session other than the addressed one (a
\* set of at most one session id) as it was, with the index entries it had
LeavesOthers(r, addressed) ==
    \A sid \in Live \ addressed :
        /\ sid \in DOMAIN r.sessions
        /\ r.sessions[sid] = sessions[sid]
        /\ EntriesOf(r.sessions_by_code, sid) = EntriesOf(sessions_by_code, sid)

\* the session a join by this code addresses
JoinedSession(sessionCode) ==
    LET found == get_session_by_code(sessions, sessions_by_code, Upper(sessionCode))
    IN  IF found = Nothing THEN Nothing ELSE Some(The(found).id)

\* C26: a request addressed to a session, or to a participant, an item or
\* an assignment a session owns, leaves every other live session (fields,
\* updatedAt, items, participants, assignments) and the index entries of
\* every other session unchanged.
C26_SessionsIndependent ==
    /\ \A id \in SessionIds :
          /\ \A updates \in SessionUpdates : LeavesOthers(Updating(id, updates), {id})
          /\ LeavesOthers(Deleting(id), {id})
          /\ \A name \in GuestNames :
                LeavesOthers(add_participant(sessions, sessions_by_code, nextId, now, id,
                                             ParticipantCreate(name)), {id})
          /\ \A data \in ItemCreates :
                LeavesOthers(add_item(sessions, sessions_by_code, nextId, now, id, data), {id})
    /\ \A code \in CodeInputs, name \in GuestNames :
          LeavesOthers(Joining(code, name), JoinedSession(code))
    /\ \A id \in ParticipantIds, updates \in ParticipantUpdates :
          LeavesOthers(update_participant(sessions, sessions_by_code, nextId, now, id, updates),
                       ParticipantOwner(sessions, id))
    /\ \A id \in ItemIds :
          /\ \A updates \in ItemUpdates :
                LeavesOthers(update_item(sessions, sessions_by_code, nextId, now, id, updates),
                             ItemOwner(sessions, id))
          /\ LeavesOthers(delete_item(sessions, sessions_by_code, nextId, now, id),
                          ItemOwner(sessions, id))
          /\ \A pids \in AnyParticipantIdLists, eq \in BOOLEAN :
                LeavesOthers(Assigning(id, pids, eq), ItemOwner(sessions, id))
    /\ \A id \in AssignmentIds :
          /\ \A updates \in AssignmentUpdates :
                LeavesOthers(update_assignment(sessions, sessions_by_code, nextId, now, id,
                                               updates),
                             AssignmentOwner(sessions, id))
          /\ LeavesOthers(delete_assignment(sessions, sessions_by_code, nextId, now, id),
                          AssignmentOwner(sessions, id))

\* a live session has lost its index entry to the deletion of another
\* session that bore the same sessionCode
C26_EntryLostToOtherSession ==
    \E sid \in Live, d \in deleted :
        /\ d.id # sid
        /\ d.sessionCode = sessions[sid].sessionCode
        /\ EntriesOf(sessions_by_code, sid) = {}

\* ---- C27 ---------------------------------------------------------------
\* a response that reports NotFound leaves the store it found
NotFoundUnchanged(r) ==
    r.status = 404 =>
        /\ r.sessions = sessions
        /\ r.sessions_by_code = sessions_by_code
        /\ r.nextId = nextId
        /\ r.body = <<>>

\* the response to a request: NotFound when the id it names is unknown, and
\* the store left as it was found whenever it reports NotFound
Reports(r, unknown) ==
    /\ unknown => r.status = 404
    /\ NotFoundUnchanged(r)

\* add_assignment with this item id, for any participant id
AddingAssignment(itemId, pid) ==
    add_assignment(sessions, sessions_by_code, nextId, now,
                   [itemId |-> itemId, participantId |-> pid,
                    splitPercentage |-> RInt(1), amount |-> RInt(1)])

\* C27: every operation that is given an id no session, participant, item
\* or assignment has reports NotFound, and every operation that reports
\* NotFound leaves the whole store as it was: sessions with their
\* updatedAt, their collections, and the index.
C27_NotFoundChangesNothing ==
    /\ \A id \in SessionIds :
          LET unknown == id \notin Live
          IN  /\ \A updates \in SessionUpdates : Reports(Updating(id, updates), unknown)
              /\ Reports(Deleting(id), unknown)
              /\ \A name \in GuestNames :
                    Reports(add_participant(sessions, sessions_by_code, nextId, now, id,
                                            ParticipantCreate(name)), unknown)
              /\ \A data \in ItemCreates :
                    Reports(add_item(sessions, sessions_by_code, nextId, now, id, data),
                            unknown)
    /\ \A code \in CodeInputs, name \in GuestNames :
          Reports(Joining(code, name), JoinedSession(code) = Nothing)
    /\ \A id \in ParticipantIds, updates \in ParticipantUpdates :
          Reports(update_participant(sessions, sessions_by_code, nextId, now, id, updates),
                  ParticipantOwner(sessions, id) = Nothing)
    /\ \A id \in ItemIds :
          LET unknown == id \notin KnownItems
          IN  /\ \A updates \in ItemUpdates :
                    Reports(update_item(sessions, sessions_by_code, nextId, now, id, updates),
                            unknown)
              /\ Reports(delete_item(sessions, sessions_by_code, nextId, now, id), unknown)
              /\ \A pid \in ParticipantIdInputs : Reports(AddingAssignment(id, pid), unknown)
              /\ \A pids \in ParticipantIdLists, eq \in BOOLEAN :
                    Reports(Assigning(id, pids, eq), unknown)
    /\ \A id \in AssignmentIds :
          LET unknown == AssignmentOwner(sessions, id) = Nothing
          IN  /\ \A updates \in AssignmentUpdates :
                    Reports(update_assignment(sessions, sessions_by_code, nextId, now, id,
                                              updates), unknown)
              /\ Reports(delete_assignment(sessions, sessions_by_code, nextId, now, id),
                         unknown)

\* the ids of a deleted session, of its participant, item and assignment
\* are unknown, while a session is live that was last changed before now
C27_UnknownIdsBesideOlderSession ==
    /\ \E d \in deleted : d.participants # {} /\ d.items # {} /\ d.assignments # {}
    /\ \E sid \in Live : sessions[sid].updatedAt < now

\* ---- C29 ---------------------------------------------------------------
\* C29: an assign_item request changes no participant record (amountOwed,
\* amountPaid, paymentStatus and every other field stay as they were); of
\* the state of a session it changes the assignments and updatedAt only,
\* and it creates and deletes no session and no index entry.
C29_AssignLeavesParticipants ==
    \A itemId \in ItemIds, pids \in AnyParticipantIdLists, eq \in BOOLEAN :
        LET r == Assigning(itemId, pids, eq)
        IN  /\ DOMAIN r.sessions = Live
            /\ r.sessions_by_code = sessions_by_code
            /\ \A sid \in Live :
                  /\ r.sessions[sid].participants = sessions[sid].participants
                  /\ [r.sessions[sid] EXCEPT !.assignments = sessions[sid].assignments,
                                             !.updatedAt = sessions[sid].updatedAt]
                         = sessions[sid]

\* a participant who has paid has been assigned a share of an item of the
\* session: the record still shows nothing owed
C29_AssignedParticipantOwesNothing ==
    \E sid \in Live :
        \E k \in DOMAIN sessions[sid].participants, j \in DOMAIN sessions[sid].assignments :
            LET participant == sessions[sid].participants[k]
                assignment == sessions[sid].assignments[j]
            IN  /\ assignment.participantId = participant.id
                /\ HasId(sessions[sid].items, assignment.itemId)
                /\ assignment.amount = RInt(20)
                /\ participant.paymentStatus = "paid"
                /\ participant.amountOwed = RInt(0)
                /\ participant.amountPaid = RInt(0)

\* ---- C28 ---------------------------------------------------------------
\* the ids a session stores for requests of this kind
StoredIds(sid, kind) ==
    IF kind = "join" THEN IdsIn(sessions[sid].participants)
    ELSE IdsIn(sessions[sid].assignments)

\* the two requests mutate the same session: joins by the same code, or
\* assignments of the same item
SameSession(a, b) ==
    /\ a.kind = b.kind
    /\ IF a.kind = "join"
       THEN Upper(a.sessionCode) = Upper(b.sessionCode)
       ELSE a.itemId = b.itemId

\* the successful responses to requests of this kind
Succeeded(kind) == {a \in answered : a.request.kind = kind /\ a.status = 200}

\* C28: whatever the order in which the handlers of the requests in flight
\* are called, no update is lost: a join answered 200 has created one
\* participant and an assign-item answered 200 one assignment per listed
\* id; what two requests on the same session created is all stored in that
\* one session; and the participants and assignments stored are exactly
\* the ones the answered requests created.
C28_NoLostUpdate ==
    /\ \A a \in answered :
          a.status = 200 =>
              /\ Cardinality(a.created) =
                     IF a.request.kind = "join" THEN 1 ELSE Len(a.request.participantIds)
              /\ \E sid \in Live : a.created \subseteq StoredIds(sid, a.request.kind)
    /\ \A a \in answered, b \in answered :
          (a.n # b.n /\ a.status = 200 /\ b.status = 200 /\ SameSession(a.request, b.request))
              => /\ a.created \cap b.created = {}
                 /\ \E sid \in Live :
                       (a.created \cup b.created) \subseteq StoredIds(sid, a.request.kind)
    /\ \A kind \in {"join", "assign"} :
          /\ UNION {StoredIds(sid, kind) : sid \in Live}
                 = UNION {a.created : a \in Succeeded(kind)}
          /\ \A sid \in Live :
                Cardinality(StoredIds(sid, kind)) =
                    IF kind = "join" THEN Len(sessions[sid].participants)
                    ELSE Len(sessions[sid].assignments)

\* two joins of the same session were in flight together and were handled
\* in the order opposite to their arrival; the session holds both
\* participants
C28_BothJoined ==
    /\ pending = {}
    /\ \E a \in Succeeded("join"), b \in Succeeded("join"), sid \in Live :
          /\ a.n = 1
          /\ b.n = 2
          /\ SameSession(a.request, b.request)
          /\ a.created = {<<"p", 2>>}
          /\ b.created = {<<"p", 1>>}
          /\ Len(sessions[sid].participants) = 2
          /\ IdsIn(sessions[sid].participants) = {<<"p", 1>>, <<"p", 2>>}

====
